---- MODULE Spec2Model ----
(***************************************************************************)
(* CommitObjectWithSegments of satellite/metainfo/metabase/commit_object.go *)
(* as a state machine over a transactional store.                          *)
(*                                                                         *)
(* The store holds the rows of the tables `segments` and `objects`.  Each  *)
(* call runs its statements inside one transaction (txutil.WithTx): a      *)
(* statement sees the committed rows and the call's own staged writes, a   *)
(* staged write keeps its row locked until the transaction ends, and a     *)
(* statement that would touch a row locked by another transaction waits.   *)
(* The store is assumed to be reachable: statements fail only for the      *)
(* reasons the code itself tests.                                          *)
(***************************************************************************)
EXTENDS Integers, Sequences, FiniteSets, TLC

(***************************************************************************)
(* Bounds of the model.                                                    *)
(***************************************************************************)
\* largest index of a segment position within its part
MaxIndex == 2
\* largest number of segment rows the stream holds before a call
MaxRows == 3
\* longest segment list a caller submits
MaxLen == 3
\* largest plain offset stored for a segment before a call
MaxOffset == 2
\* largest index of a segment position when two calls run concurrently
MaxConcurrentIndex == 1

(***************************************************************************)
(* Segment positions.                                                      *)
(***************************************************************************)
\* the part numbers of the model: the first part and a later one
Parts == {0, 1}

SegmentPosition == [Part : Parts, Index : 0..MaxIndex]

\* number of index values one part spans in the encoded key
IndexSpan == MaxIndex + 1

\* SegmentPosition.Less: (part, index) lexicographic
Less(a, b) ==
    \/ a.Part < b.Part
    \/ a.Part = b.Part /\ a.Index < b.Index

\* SegmentPosition.Encode: one sortable integer, the part is the major component
Encode(p) == p.Part * IndexSpan + p.Index

\* SegmentPositionFromEncoded, used when a row's position column is scanned
Decode(k) == [Part |-> k \div IndexSpan, Index |-> k % IndexSpan]

(***************************************************************************)
(* Values of the program.                                                  *)
(***************************************************************************)
Pending == "Pending"
Committed == "Committed"

pendingStatus == Pending
committedStatus == Committed

\* a zero uuid / empty value
Zero == "zero"

Callers == {"c1", "c2"}

\* the error classes a call can return
NoError == [kind |-> "none", invalid |-> <<>>]
InvalidRequest == [kind |-> "invalid_request", invalid |-> <<>>]
ValidationError == [kind |-> "validation", invalid |-> <<>>]
ConsistencyError(invalidSegments) == [kind |-> "consistency", invalid |-> invalidSegments]
ErrObjectNotFound == [kind |-> "not_found", invalid |-> <<>>]
InfrastructureError == [kind |-> "infrastructure", invalid |-> <<>>]

\* the zero Object{} a failed call returns
NoObject == [Status |-> "none"]

(***************************************************************************)
(* Helpers on sequences and sets.                                          *)
(***************************************************************************)
Range(s) == {s[i] : i \in 1..Len(s)}

RECURSIVE SumSeq(_)
SumSeq(s) == IF s = <<>> THEN 0 ELSE Head(s) + SumSeq(Tail(s))

\* the rows of S in ascending order of their encoded position (ORDER BY position)
RECURSIVE OrderByPosition(_)
OrderByPosition(S) ==
    IF S = {} THEN <<>>
    ELSE LET first == CHOOSE r \in S : \A q \in S : r.Position <= q.Position
         IN  <<first>> \o OrderByPosition(S \ {first})

(***************************************************************************)
(* verifySegmentOrder                                                      *)
(***************************************************************************)
\* verifySegmentOrder with a repeated position let through
verifySegmentOrderOrEqual(positions) ==
    \/ Len(positions) = 0
    \/ \A i \in 1..(Len(positions) - 1) :
          Less(positions[i], positions[i + 1]) \/ positions[i] = positions[i + 1]

\* TRUE when verifySegmentOrder returns nil
verifySegmentOrder(positions) ==
    \/ Len(positions) = 0
    \/ \A i \in 1..(Len(positions) - 1) : Less(positions[i], positions[i + 1])

\* ObjectStream.Verify: every identity field must be set
VerifyObjectStream(os) ==
    /\ os.ProjectID # Zero
    /\ os.BucketName # Zero
    /\ os.ObjectKey # Zero
    /\ os.Version >= 0
    /\ os.StreamID # Zero

(***************************************************************************)
(* diffSegmentsWithDatabase and determineCommitActions                     *)
(***************************************************************************)
\* One callback cb(a, b): a and b are sequences of length 0 (nil) or 1.
Callback(a, b) == [a |-> a, b |-> b]

\* segmentInfoForCommit as scanned from a row
segmentInfoForCommit(row) ==
    [Position |-> Decode(row.Position),
     EncryptedSize |-> row.EncryptedSize,
     PlainOffset |-> row.PlainOffset,
     PlainSize |-> row.PlainSize]

\* diffSegmentsWithDatabase without its loop over the rows left in bs
RECURSIVE diffSegmentsWithDatabaseNoRest(_, _)
diffSegmentsWithDatabaseNoRest(as, bs) ==
    IF Len(as) > 0 /\ Len(bs) > 0
    THEN IF as[1] = bs[1].Position
         THEN <<Callback(<<as[1]>>, <<bs[1]>>)>> \o diffSegmentsWithDatabaseNoRest(Tail(as), Tail(bs))
         ELSE IF Less(as[1], bs[1].Position)
         THEN <<Callback(<<as[1]>>, <<>>)>> \o diffSegmentsWithDatabaseNoRest(Tail(as), bs)
         ELSE <<Callback(<<>>, <<bs[1]>>)>> \o diffSegmentsWithDatabaseNoRest(as, Tail(bs))
    ELSE [i \in 1..Len(as) |-> Callback(<<as[i]>>, <<>>)]

\* the callbacks diffSegmentsWithDatabase makes, in order
RECURSIVE diffSegmentsWithDatabase(_, _)
diffSegmentsWithDatabase(as, bs) ==
    IF Len(as) > 0 /\ Len(bs) > 0
    THEN IF as[1] = bs[1].Position
         THEN <<Callback(<<as[1]>>, <<bs[1]>>)>> \o diffSegmentsWithDatabase(Tail(as), Tail(bs))
         ELSE IF Less(as[1], bs[1].Position)
         THEN <<Callback(<<as[1]>>, <<>>)>> \o diffSegmentsWithDatabase(Tail(as), bs)
         ELSE <<Callback(<<>>, <<bs[1]>>)>> \o diffSegmentsWithDatabase(as, Tail(bs))
    ELSE [i \in 1..Len(as) |-> Callback(<<as[i]>>, <<>>)]
         \o [i \in 1..Len(bs) |-> Callback(<<>>, <<bs[i]>>)]

segmentToCommit(a, b) ==
    [Position |-> a,
     OldPlainOffset |-> b.PlainOffset,
     PlainSize |-> b.PlainSize,
     EncryptedSize |-> b.EncryptedSize]

\* the callback with no row taken for deletion
IsDeleteNever(cb) == FALSE

IsInvalid(cb) == cb.b = <<>>
IsDelete(cb) == cb.b # <<>> /\ cb.a = <<>>
IsCommit(cb) == cb.b # <<>> /\ cb.a # <<>>

\* the group of errors closed at its first entry
RECURSIVE InvalidOfFirst(_)
InvalidOfFirst(cbs) ==
    IF cbs = <<>> THEN <<>>
    ELSE IF IsInvalid(Head(cbs)) THEN <<Head(cbs).a[1]>> ELSE InvalidOfFirst(Tail(cbs))

\* the pieces the callback of determineCommitActions accumulates
RECURSIVE InvalidOf(_)
InvalidOf(cbs) ==
    IF cbs = <<>> THEN <<>>
    ELSE (IF IsInvalid(Head(cbs)) THEN <<Head(cbs).a[1]>> ELSE <<>>) \o InvalidOf(Tail(cbs))

RECURSIVE DeleteOf(_)
DeleteOf(cbs) ==
    IF cbs = <<>> THEN <<>>
    ELSE (IF IsDelete(Head(cbs)) THEN <<Head(cbs).b[1].Position>> ELSE <<>>) \o DeleteOf(Tail(cbs))

RECURSIVE CommitOf(_)
CommitOf(cbs) ==
    IF cbs = <<>> THEN <<>>
    ELSE (IF IsCommit(Head(cbs)) THEN <<segmentToCommit(Head(cbs).a[1], Head(cbs).b[1])>> ELSE <<>>)
         \o CommitOf(Tail(cbs))

\* determineCommitActions without the test of invalidSegments
determineCommitActionsUnchecked(segs, segmentsInDatabase) ==
    LET cbs == diffSegmentsWithDatabase(segs, segmentsInDatabase)
    IN  [commit |-> CommitOf(cbs), toDelete |-> DeleteOf(cbs), err |-> NoError]

\* determineCommitActions: (commit, toDelete, err)
determineCommitActions(segs, segmentsInDatabase) ==
    LET cbs == diffSegmentsWithDatabase(segs, segmentsInDatabase)
        invalidSegments == InvalidOf(cbs)
    IN  IF invalidSegments # <<>>
        THEN [commit |-> <<>>, toDelete |-> <<>>, err |-> ConsistencyError(invalidSegments)]
        ELSE [commit |-> CommitOf(cbs), toDelete |-> DeleteOf(cbs), err |-> NoError]

(***************************************************************************)
(* updateSegmentOffsets: the batch of offsets that differ                  *)
(***************************************************************************)
\* the batch with the offsets advanced by the encrypted size
RECURSIVE OffsetUpdatesByEncryptedSize(_, _)
OffsetUpdatesByEncryptedSize(updates, expectedOffset) ==
    IF updates = <<>> THEN <<>>
    ELSE LET u == Head(updates)
         IN  (IF u.OldPlainOffset # expectedOffset
              THEN <<[Position |-> Encode(u.Position), PlainOffset |-> expectedOffset]>>
              ELSE <<>>)
             \o OffsetUpdatesByEncryptedSize(Tail(updates), expectedOffset + u.EncryptedSize)

\* the batch with every segment in it, changed or not
RECURSIVE OffsetUpdatesOfAll(_, _)
OffsetUpdatesOfAll(updates, expectedOffset) ==
    IF updates = <<>> THEN <<>>
    ELSE LET u == Head(updates)
         IN  <<[Position |-> Encode(u.Position), PlainOffset |-> expectedOffset]>>
             \o OffsetUpdatesOfAll(Tail(updates), expectedOffset + u.PlainSize)

\* update.Positions / update.PlainOffsets as a sequence of pairs
RECURSIVE OffsetUpdates(_, _)
OffsetUpdates(updates, expectedOffset) ==
    IF updates = <<>> THEN <<>>
    ELSE LET u == Head(updates)
         IN  (IF u.OldPlainOffset # expectedOffset
              THEN <<[Position |-> Encode(u.Position), PlainOffset |-> expectedOffset]>>
              ELSE <<>>)
             \o OffsetUpdates(Tail(updates), expectedOffset + u.PlainSize)

(***************************************************************************)
(* Aggregates of CommitObjectWithSegments                                  *)
(***************************************************************************)
\* the loop with the last segment compared like the others
RECURSIVE VariesWithLast(_, _)
VariesWithLast(finalSegments, n) ==
    IF n = 0 THEN FALSE
    ELSE \/ VariesWithLast(finalSegments, n - 1)
         \/ finalSegments[n].Position.Part # 0
         \/ finalSegments[n].EncryptedSize # finalSegments[1].EncryptedSize

\* TRUE when the loop over finalSegments breaks with -1 at or before entry n
RECURSIVE Varies(_, _)
Varies(finalSegments, n) ==
    IF n = 0 THEN FALSE
    ELSE \/ Varies(finalSegments, n - 1)
         \/ finalSegments[n].Position.Part # 0
         \/ /\ n - 1 < Len(finalSegments) - 1
            /\ finalSegments[n].EncryptedSize # finalSegments[1].EncryptedSize

fixedSegmentSize(finalSegments) ==
    IF Len(finalSegments) > 0
    THEN IF Varies(finalSegments, Len(finalSegments))
         THEN -1
         ELSE finalSegments[1].EncryptedSize
    ELSE 0

\* the sum of the plain sizes but for the last segment
totalPlainSizeButLast(finalSegments) ==
    SumSeq([i \in 1..(Len(finalSegments) - 1) |-> finalSegments[i].PlainSize])

totalPlainSize(finalSegments) ==
    SumSeq([i \in 1..Len(finalSegments) |-> finalSegments[i].PlainSize])

\* the encrypted total summed over the plain sizes
totalEncryptedSizeOfPlain(finalSegments) ==
    SumSeq([i \in 1..Len(finalSegments) |-> finalSegments[i].PlainSize])

totalEncryptedSize(finalSegments) ==
    SumSeq([i \in 1..Len(finalSegments) |-> finalSegments[i].EncryptedSize])

(***************************************************************************)
(* The state.                                                              *)
(***************************************************************************)
VARIABLES
    \* the committed rows of table segments
    segments,
    \* the committed rows of table objects
    objects,
    \* per caller: the position in CommitObjectWithSegments and its locals
    call,
    \* per caller: the writes its open transaction has staged
    tx,
    \* per caller: the arguments of the call it makes (none: <<>>)
    requests

vars == <<segments, objects, call, tx, requests>>

\* the primary key of a segment row
SegmentKey(row) == [StreamID |-> row.StreamID, Position |-> row.Position]

\* the primary key of an object row
ObjectRowKey(row) ==
    [ProjectID |-> row.ProjectID, BucketName |-> row.BucketName,
     ObjectKey |-> row.ObjectKey, Version |-> row.Version]

NoTx == [segSet |-> {}, segDel |-> {}, objSet |-> {}]

\* the segment rows a transaction holds locked: those it rewrote or deleted
LockedSegments(c) == {SegmentKey(r) : r \in tx[c].segSet} \cup tx[c].segDel

\* the object rows a transaction holds locked
LockedObjects(c) == {ObjectRowKey(o) : o \in tx[c].objSet}

\* what a statement of caller c reads: the committed rows under its own writes
SegmentsSeenBy(c) ==
    {r \in segments : SegmentKey(r) \notin LockedSegments(c)} \cup tx[c].segSet

ObjectsSeenBy(c) ==
    {o \in objects : ObjectRowKey(o) \notin LockedObjects(c)} \cup tx[c].objSet

\* a statement on these segment rows has to wait for another transaction
SegmentsLockedByOther(c, rows) ==
    \E d \in Callers \ {c} : \E r \in rows : SegmentKey(r) \in LockedSegments(d)

ObjectsLockedByOther(c, rows) ==
    \E d \in Callers \ {c} : \E o \in rows : ObjectRowKey(o) \in LockedObjects(d)

\* the locals of caller c once the call has returned Object{}, nil, err
Fail(c, err, queries) ==
    [call[c] EXCEPT !.pc = "done", !.err = err, !.object = NoObject,
                    !.deletedSegments = <<>>, !.queries = @ \o queries]

\* WithTx rolls back: the staged writes are dropped and their locks released
Rollback(c) ==
    /\ tx' = [tx EXCEPT ![c] = NoTx]
    /\ UNCHANGED <<segments, objects>>

\* The closure returned err: WithTx rolls back and the call returns err.
ReturnError(c, failed) ==
    /\ call' = [call EXCEPT ![c] = failed]
    /\ Rollback(c)

IdleCall ==
    [pc |-> "idle",
     opts |-> [ObjectStream |-> [StreamID |-> Zero], Segments |-> <<>>],
     segmentsInDatabase |-> <<>>,
     finalSegments |-> <<>>,
     segmentsToDelete |-> <<>>,
     deletedSegments |-> <<>>,
     object |-> NoObject,
     err |-> NoError,
     queries |-> <<>>]

(***************************************************************************)
(* CommitObjectWithSegments, one action per store operation.               *)
(***************************************************************************)
\* Entry: Verify, verifySegmentOrder, then WithTx opens the transaction.
Begin(c) ==
    /\ call[c].pc = "idle"
    /\ requests[c] # <<>>
    /\ LET opts == requests[c][1]
       IN  IF ~VerifyObjectStream(opts.ObjectStream)
           THEN call' = [call EXCEPT ![c] = [Fail(c, InvalidRequest, <<>>) EXCEPT !.opts = opts]]
           ELSE IF ~verifySegmentOrder(opts.Segments)
           THEN call' = [call EXCEPT ![c] = [Fail(c, ValidationError, <<>>) EXCEPT !.opts = opts]]
           ELSE call' = [call EXCEPT ![c].opts = opts, ![c].pc = "fetch",
                                     ![c].queries = <<"BEGIN">>]
    /\ UNCHANGED <<segments, objects, tx, requests>>

\* fetchSegmentsForCommit: SELECT ... FROM segments WHERE stream_id = $1 ORDER BY position
fetchSegmentsForCommit(c, streamID) ==
    LET rows == OrderByPosition({r \in SegmentsSeenBy(c) : r.StreamID = streamID})
    IN  [i \in 1..Len(rows) |-> segmentInfoForCommit(rows[i])]

\* The snapshot read and the reconciliation that follows it.
Fetch(c) ==
    /\ call[c].pc = "fetch"
    /\ LET segmentsInDatabase == fetchSegmentsForCommit(c, call[c].opts.ObjectStream.StreamID)
           actions == determineCommitActions(call[c].opts.Segments, segmentsInDatabase)
           fetched == [call[c] EXCEPT !.segmentsInDatabase = segmentsInDatabase,
                                      !.queries = @ \o <<"SELECT segments">>]
       IN  IF actions.err # NoError
           THEN ReturnError(c, [fetched EXCEPT !.pc = "done", !.err = actions.err,
                                               !.finalSegments = actions.commit,
                                               !.segmentsToDelete = actions.toDelete,
                                               !.object = NoObject, !.deletedSegments = <<>>,
                                               !.queries = @ \o <<"ROLLBACK">>])
           ELSE /\ call' = [call EXCEPT ![c] =
                               [fetched EXCEPT !.pc = "update",
                                               !.finalSegments = actions.commit,
                                               !.segmentsToDelete = actions.toDelete]]
                /\ UNCHANGED <<segments, objects, tx>>
    /\ UNCHANGED requests

\* the rows UPDATE segments ... WHERE stream_id = $1 AND position = P.position touches
OffsetUpdateTargets(c, streamID, update) ==
    {r \in SegmentsSeenBy(c) :
        /\ r.StreamID = streamID
        /\ \E i \in 1..Len(update) : update[i].Position = r.Position}

\* the new versions of those rows: SET plain_offset = P.plain_offset
OffsetUpdateRows(targets, update) ==
    {[r EXCEPT !.PlainOffset =
        update[CHOOSE i \in 1..Len(update) : update[i].Position = r.Position].PlainOffset] :
     r \in targets}

\* this transaction's staged rows after the statement rewrote `targets` into `rows`
StageSegments(c, targets, rows) ==
    [tx[c] EXCEPT !.segSet =
        {r \in @ : SegmentKey(r) \notin {SegmentKey(t) : t \in targets}} \cup rows]

\* the test of RowsAffected with every count let through
AffectedAny(affected, update) == FALSE

\* affected != int64(len(update.Positions))
AffectedMismatch(affected, update) == affected # Len(update)

\* updateSegmentOffsets
UpdateSegmentOffsets(c) ==
    /\ call[c].pc = "update"
    /\ LET streamID == call[c].opts.ObjectStream.StreamID
           updates == call[c].finalSegments
           update == OffsetUpdates(updates, 0)
           targets == OffsetUpdateTargets(c, streamID, update)
           affected == Cardinality(targets)
       IN  IF Len(updates) = 0 \/ Len(update) = 0
           THEN /\ call' = [call EXCEPT ![c].pc = "delete"]
                /\ UNCHANGED <<segments, objects, tx>>
           ELSE /\ ~SegmentsLockedByOther(c, targets)
                /\ IF AffectedMismatch(affected, update)
                   THEN ReturnError(c, Fail(c, InfrastructureError,
                                            <<"UPDATE segments", "ROLLBACK">>))
                   ELSE /\ call' = [call EXCEPT ![c].pc = "delete",
                                                ![c].queries = @ \o <<"UPDATE segments">>]
                        /\ tx' = [tx EXCEPT ![c] =
                               StageSegments(c, targets, OffsetUpdateRows(targets, update))]
                        /\ UNCHANGED <<segments, objects>>
    /\ UNCHANGED requests

\* the DELETE without stream_id = $1 in its WHERE clause
DeleteTargetsAnyStream(c, streamID, positions) ==
    {r \in SegmentsSeenBy(c) : \E i \in 1..Len(positions) : positions[i] = r.Position}

\* the rows DELETE FROM segments WHERE stream_id = $1 AND position = ANY($2) removes
DeleteTargets(c, streamID, positions) ==
    {r \in SegmentsSeenBy(c) :
        /\ r.StreamID = streamID
        /\ \E i \in 1..Len(positions) : positions[i] = r.Position}

\* RootPieceID.IsZero
IsZero(id) == id = 0

DeletedSegmentInfo(row) == [RootPieceID |-> row.RootPieceID, Pieces |-> row.RemotePieces]

\* the loop without its test for inline segments
ReportDeletedInline(rows) == [i \in 1..Len(rows) |-> DeletedSegmentInfo(rows[i])]

\* the deleted rows the loop over RETURNING root_piece_id, remote_pieces reports
RECURSIVE ReportDeleted(_)
ReportDeleted(rows) ==
    IF rows = <<>> THEN <<>>
    ELSE (IF IsZero(Head(rows).RootPieceID) THEN <<>> ELSE <<DeletedSegmentInfo(Head(rows))>>)
         \o ReportDeleted(Tail(rows))

\* deleteSegmentsNotInCommit
DeleteSegmentsNotInCommit(c) ==
    /\ call[c].pc = "delete"
    /\ LET streamID == call[c].opts.ObjectStream.StreamID
           segs == call[c].segmentsToDelete
           positions == [i \in 1..Len(segs) |-> Encode(segs[i])]
           targets == DeleteTargets(c, streamID, positions)
       IN  IF Len(segs) = 0
           THEN /\ call' = [call EXCEPT ![c].pc = "object"]
                /\ UNCHANGED tx
           ELSE /\ ~SegmentsLockedByOther(c, targets)
                /\ call' = [call EXCEPT ![c].pc = "object",
                                        ![c].deletedSegments = ReportDeleted(OrderByPosition(targets)),
                                        ![c].queries = @ \o <<"DELETE segments">>]
                /\ tx' = [tx EXCEPT ![c] =
                       [@ EXCEPT !.segSet = {r \in @ : r \notin targets},
                                 !.segDel = @ \cup {SegmentKey(t) : t \in targets}]]
    /\ UNCHANGED <<segments, objects, requests>>

\* the WHERE clause without its test of the status
ObjectMatchesAnyStatus(o, os) ==
    /\ o.ProjectID = os.ProjectID
    /\ o.BucketName = os.BucketName
    /\ o.ObjectKey = os.ObjectKey
    /\ o.Version = os.Version
    /\ o.StreamID = os.StreamID

\* the WHERE clause of UPDATE objects
ObjectMatches(o, os) ==
    /\ o.ProjectID = os.ProjectID
    /\ o.BucketName = os.BucketName
    /\ o.ObjectKey = os.ObjectKey
    /\ o.Version = os.Version
    /\ o.StreamID = os.StreamID
    /\ o.Status = pendingStatus

\* the SET clause of UPDATE objects
ObjectUpdate(o, opts, finalSegments) ==
    [o EXCEPT !.Status = committedStatus,
              !.SegmentCount = Len(finalSegments),
              !.EncryptedMetadataNonce = opts.EncryptedMetadataNonce,
              !.EncryptedMetadata = opts.EncryptedMetadata,
              !.EncryptedMetadataEncryptedKey = opts.EncryptedMetadataEncryptedKey,
              !.TotalPlainSize = totalPlainSize(finalSegments),
              !.TotalEncryptedSize = totalEncryptedSize(finalSegments),
              !.FixedSegmentSize = fixedSegmentSize(finalSegments),
              !.ZombieDeletionDeadline = "NULL"]

\* the Object the call returns: the columns scanned and the fields set from opts
ObjectResult(row, opts, finalSegments) ==
    [CreatedAt |-> row.CreatedAt,
     ExpiresAt |-> row.ExpiresAt,
     Encryption |-> row.Encryption,
     StreamID |-> opts.ObjectStream.StreamID,
     ProjectID |-> opts.ObjectStream.ProjectID,
     BucketName |-> opts.ObjectStream.BucketName,
     ObjectKey |-> opts.ObjectStream.ObjectKey,
     Version |-> opts.ObjectStream.Version,
     Status |-> Committed,
     SegmentCount |-> Len(finalSegments),
     EncryptedMetadataNonce |-> opts.EncryptedMetadataNonce,
     EncryptedMetadata |-> opts.EncryptedMetadata,
     EncryptedMetadataEncryptedKey |-> opts.EncryptedMetadataEncryptedKey,
     TotalPlainSize |-> totalPlainSize(finalSegments),
     TotalEncryptedSize |-> totalEncryptedSize(finalSegments),
     FixedSegmentSize |-> fixedSegmentSize(finalSegments)]

\* the rows the conditional UPDATE objects finds
ObjectTargets(c) ==
    {o \in ObjectsSeenBy(c) : ObjectMatches(o, call[c].opts.ObjectStream)}

\* sql.ErrNoRows taken for success: the closure returns nil
ObjectNotFoundSwallowed(c) ==
    /\ call' = [call EXCEPT ![c].pc = "commit", ![c].queries = @ \o <<"UPDATE objects">>]
    /\ UNCHANGED <<segments, objects, tx>>

\* sql.ErrNoRows wrapped like any other failure of the statement
ObjectNotFoundAsFailure(c) ==
    ReturnError(c, Fail(c, InfrastructureError, <<"UPDATE objects", "ROLLBACK">>))

\* Scan found sql.ErrNoRows: the closure returns ErrObjectNotFound
ObjectNotFound(c) ==
    ReturnError(c, Fail(c, ErrObjectNotFound, <<"UPDATE objects", "ROLLBACK">>))

\* The aggregates and the conditional state-transition write.
UpdateObject(c) ==
    /\ call[c].pc = "object"
    /\ LET opts == call[c].opts
           finalSegments == call[c].finalSegments
           targets == ObjectTargets(c)
       IN  /\ ~ObjectsLockedByOther(c, targets)
           /\ IF targets = {}
              THEN ObjectNotFound(c)
              ELSE LET updated == {ObjectUpdate(o, opts, finalSegments) : o \in targets}
                       row == CHOOSE o \in updated : TRUE
                   IN  /\ call' = [call EXCEPT ![c].pc = "commit",
                                               ![c].object = ObjectResult(row, opts, finalSegments),
                                               ![c].queries = @ \o <<"UPDATE objects">>]
                       /\ tx' = [tx EXCEPT ![c].objSet = updated]
                       /\ UNCHANGED <<segments, objects>>
    /\ UNCHANGED requests

\* The closure returned nil: WithTx commits and the call returns its results.
Commit(c) ==
    /\ call[c].pc = "commit"
    /\ segments' = SegmentsSeenBy(c)
    /\ objects' = ObjectsSeenBy(c)
    /\ tx' = [tx EXCEPT ![c] = NoTx]
    /\ call' = [call EXCEPT ![c].pc = "done", ![c].queries = @ \o <<"COMMIT">>]
    /\ UNCHANGED requests

\* the transactions whose locks the next statement of caller c waits for
WaitsFor(c) ==
    LET streamID == call[c].opts.ObjectStream.StreamID
        update == OffsetUpdates(call[c].finalSegments, 0)
        segs == call[c].segmentsToDelete
        rows == CASE call[c].pc = "update" -> OffsetUpdateTargets(c, streamID, update)
                  [] call[c].pc = "delete" ->
                        DeleteTargets(c, streamID, [i \in 1..Len(segs) |-> Encode(segs[i])])
                  [] OTHER -> {}
    IN  {d \in Callers \ {c} : \E r \in rows : SegmentKey(r) \in LockedSegments(d)}

\* Two transactions wait for each other's row locks: the store ends one of them
\* with an error, which the call returns wrapped.
DeadlockAbort(c) ==
    /\ \E d \in WaitsFor(c) : c \in WaitsFor(d)
    /\ ReturnError(c, Fail(c, InfrastructureError,
                            <<IF call[c].pc = "update" THEN "UPDATE segments"
                                                       ELSE "DELETE segments",
                              "ROLLBACK">>))
    /\ UNCHANGED requests

\* Another operation on the store removes a segment row in a transaction of
\* its own; like any statement it waits while the row is locked.
RemoveSegment ==
    /\ \E r \in segments :
          /\ \A c \in Callers : SegmentKey(r) \notin LockedSegments(c)
          /\ segments' = segments \ {r}
    /\ UNCHANGED <<objects, call, tx, requests>>

(***************************************************************************)
(* The rows and the arguments the model starts from.                       *)
(***************************************************************************)
\* the identity of the upload the calls commit
ObjectStream1 ==
    [ProjectID |-> "project", BucketName |-> "bucket", ObjectKey |-> "key",
     Version |-> 1, StreamID |-> "stream1"]

\* the identity of another upload
ObjectStream2 ==
    [ProjectID |-> "project", BucketName |-> "bucket", ObjectKey |-> "key2",
     Version |-> 1, StreamID |-> "stream2"]

\* the plain and encrypted sizes of the model
Sizes == {1, 2}

\* the arguments of caller c: each caller sends metadata of its own
Request(c, os, segs) ==
    [ObjectStream |-> os,
     EncryptedMetadata |-> <<"metadata", c>>,
     EncryptedMetadataNonce |-> <<"nonce", c>>,
     EncryptedMetadataEncryptedKey |-> <<"key", c>>,
     Segments |-> segs]

\* a row of table segments; a remote segment has a root piece id of its own
SegmentRow(streamID, position, plainSize, encryptedSize, plainOffset, remote) ==
    [StreamID |-> streamID,
     Position |-> Encode(position),
     EncryptedSize |-> encryptedSize,
     PlainSize |-> plainSize,
     PlainOffset |-> plainOffset,
     RootPieceID |-> IF remote THEN Encode(position) + 1 ELSE 0,
     RemotePieces |-> IF remote THEN <<[Number |-> 0, StorageNode |-> "node"]>> ELSE <<>>]

\* the row of table objects an upload begins with
PendingObject(os) ==
    [ProjectID |-> os.ProjectID, BucketName |-> os.BucketName,
     ObjectKey |-> os.ObjectKey, Version |-> os.Version, StreamID |-> os.StreamID,
     Status |-> Pending,
     SegmentCount |-> 0,
     EncryptedMetadataNonce |-> <<>>,
     EncryptedMetadata |-> <<>>,
     EncryptedMetadataEncryptedKey |-> <<>>,
     TotalPlainSize |-> 0,
     TotalEncryptedSize |-> 0,
     FixedSegmentSize |-> 0,
     ZombieDeletionDeadline |-> "deadline",
     CreatedAt |-> "created", ExpiresAt |-> "expires", Encryption |-> "encryption"]

\* the sets of at most k rows of R, one row per position of P
RECURSIVE StoresFrom(_, _, _)
StoresFrom(P, R, k) ==
    IF P = {} \/ k = 0 THEN {{}}
    ELSE LET p == CHOOSE q \in P : TRUE
         IN  StoresFrom(P \ {p}, R, k)
             \cup {S \cup {r} : S \in StoresFrom(P \ {p}, R, k - 1),
                               r \in {x \in R : x.Position = Encode(p)}}

\* the positions of P in ascending order
RECURSIVE Ascending(_)
Ascending(P) ==
    IF P = {} THEN <<>>
    ELSE LET first == CHOOSE p \in P : \A q \in P : p = q \/ Less(p, q)
         IN  <<first>> \o Ascending(P \ {first})

\* the strictly ascending lists of at most n positions of P
AscendingLists(P, n) == {Ascending(S) : S \in {T \in SUBSET P : Cardinality(T) <= n}}

\* every list of at most n positions of P, ordered or not
AllLists(P, n) == UNION {[1..k -> P] : k \in 0..n}

FirstPart == {p \in SegmentPosition : p.Part = 0}

ConcurrentPositions == {p \in FirstPart : p.Index <= MaxConcurrentIndex}

\* rows that differ in nothing but their position
PlainRows(P) == {SegmentRow(ObjectStream1.StreamID, p, 1, 2, 0, TRUE) : p \in P}

\* rows of every plain and encrypted size
SizeRows(P) ==
    {SegmentRow(ObjectStream1.StreamID, p, ps, es, 0, TRUE) : p \in P, ps \in Sizes, es \in Sizes}

\* rows of every stored plain offset and plain size
OffsetRows(P) ==
    {SegmentRow(ObjectStream1.StreamID, p, ps, 2, off, TRUE) :
        p \in P, ps \in Sizes, off \in 0..MaxOffset}

\* rows of every stored plain offset
ConcurrentRows(P) ==
    {SegmentRow(ObjectStream1.StreamID, p, 1, 2, off, TRUE) : p \in P, off \in 0..MaxOffset}

\* remote and inline rows
RemoteRows(P) ==
    {SegmentRow(ObjectStream1.StreamID, p, 1, 2, 0, remote) : p \in P, remote \in BOOLEAN}

\* the rows and the object a successful commit of all rows of S leaves
CommittedSegments(S) ==
    LET rows == OrderByPosition(S)
    IN  {[rows[i] EXCEPT !.PlainOffset = SumSeq([j \in 1..(i - 1) |-> rows[j].PlainSize])] :
         i \in 1..Len(rows)}

CommittedObject(os, S) ==
    LET rows == OrderByPosition(S)
        finalSegments == [i \in 1..Len(rows) |->
                             segmentToCommit(Decode(rows[i].Position), rows[i])]
    IN  ObjectUpdate(PendingObject(os), Request("c0", os, <<>>), finalSegments)

\* one start of the model: the committed rows and each caller's arguments
Start(segs, objs, reqs) ==
    /\ segments = segs
    /\ objects = objs
    /\ requests = reqs
    /\ call = [c \in Callers |-> IdleCall]
    /\ tx = [c \in Callers |-> NoTx]

OneCall(os, list) == [c \in Callers |-> IF c = "c1" THEN <<Request(c, os, list)>> ELSE <<>>]

TwoCalls(os, list1, list2) ==
    [c \in Callers |-> <<Request(c, os, IF c = "c1" THEN list1 ELSE list2)>>]

PositionStores == StoresFrom(SegmentPosition, PlainRows(SegmentPosition), MaxRows)

DataStores ==
    StoresFrom(FirstPart, SizeRows(FirstPart), MaxRows)
    \cup StoresFrom(FirstPart, OffsetRows(FirstPart), MaxRows)
    \cup StoresFrom(FirstPart, RemoteRows(FirstPart), MaxRows)

OffsetStores == StoresFrom(FirstPart, OffsetRows(FirstPart), MaxRows)

PlainStores == StoresFrom(FirstPart, PlainRows(FirstPart), MaxRows)

ConcurrentStores ==
    StoresFrom(ConcurrentPositions, ConcurrentRows(ConcurrentPositions), MaxRows)

PositionLists == AscendingLists(SegmentPosition, MaxLen)

FirstPartLists == AscendingLists(FirstPart, MaxLen)

ConcurrentLists == AscendingLists(ConcurrentPositions, MaxLen)

\* a single call on a Pending object: every placement of rows and of listed positions
PositionStarts ==
    \E S \in PositionStores, list \in PositionLists :
        Start(S, {PendingObject(ObjectStream1)}, OneCall(ObjectStream1, list))

\* a single call on a Pending object: every size, stored offset and kind of row
DataStarts ==
    \E S \in DataStores, list \in FirstPartLists :
        Start(S, {PendingObject(ObjectStream1)}, OneCall(ObjectStream1, list))

\* a single call with any list, ordered or not
ListStarts ==
    \E S \in {{}, PlainRows(FirstPart)}, list \in AllLists(SegmentPosition, MaxLen) :
        Start(S, {PendingObject(ObjectStream1)}, OneCall(ObjectStream1, list))

\* a single call with an identity that is not set
UnsetStarts ==
    \E S \in PlainStores, list \in AllLists(ConcurrentPositions, MaxLen) :
        Start(S, {PendingObject(ObjectStream1)},
              OneCall([ObjectStream1 EXCEPT !.StreamID = Zero], list))

\* a single call on an object that is already Committed
CommittedStarts ==
    \E S \in PlainStores, list \in FirstPartLists :
        Start(CommittedSegments(S), {CommittedObject(ObjectStream1, S)},
              OneCall(ObjectStream1, list))

\* a single call on an object that is missing, or Pending under another version
\* or another stream id
MissingStarts ==
    \E S \in OffsetStores, list \in FirstPartLists :
        \E objs \in {{},
                     {PendingObject([ObjectStream1 EXCEPT !.Version = 2])},
                     {PendingObject([ObjectStream1 EXCEPT !.StreamID = "stream2"])}} :
            Start(S, objs, OneCall(ObjectStream1, list))

\* two concurrent calls on the same Pending object
ConcurrentStarts ==
    \E S \in ConcurrentStores, list1 \in ConcurrentLists, list2 \in ConcurrentLists :
        Start(S, {PendingObject(ObjectStream1)}, TwoCalls(ObjectStream1, list1, list2))

\* a call and, after it has returned, the same call again
RepeatedCall(os, list) == [c \in Callers |-> <<Request("c1", os, list)>>]

RepeatStarts ==
    \E S \in OffsetStores, list \in FirstPartLists :
        Start(S, {PendingObject(ObjectStream1)}, RepeatedCall(ObjectStream1, list))

\* a single call while another operation removes segment rows
RemovalStarts ==
    \E S \in ConcurrentStores, list \in ConcurrentLists :
        Start(S, {PendingObject(ObjectStream1)}, OneCall(ObjectStream1, list))

\* the rows of S as rows of another stream
OnStream(S, streamID) == {[r EXCEPT !.StreamID = streamID] : r \in S}

\* rows at the same stored offset: right for a second segment, wrong for a first
SharedOffsetRows(P) == {SegmentRow(ObjectStream1.StreamID, p, 1, 2, 1, TRUE) : p \in P}

StreamStores == SUBSET SharedOffsetRows(ConcurrentPositions)

\* two concurrent calls, each on a Pending object of its own, the two streams
\* with rows at the same positions
StreamsStarts ==
    \E S1 \in StreamStores, S2 \in StreamStores :
        \E list1 \in ConcurrentLists, list2 \in ConcurrentLists :
            Start(S1 \cup OnStream(S2, ObjectStream2.StreamID),
                  {PendingObject(ObjectStream1), PendingObject(ObjectStream2)},
                  [c \in Callers |->
                      IF c = "c1" THEN <<Request(c, ObjectStream1, list1)>>
                                  ELSE <<Request(c, ObjectStream2, list2)>>])

(***************************************************************************)
(* The specifications.                                                     *)
(***************************************************************************)
\* one step of CommitObjectWithSegments by caller c
Step(c) ==
    \/ Begin(c)
    \/ Fetch(c)
    \/ UpdateSegmentOffsets(c)
    \/ DeleteSegmentsNotInCommit(c)
    \/ UpdateObject(c)
    \/ Commit(c)

\* two callers commit the same stream concurrently
Init == ConcurrentStarts

Next == \E c \in Callers : Step(c) \/ DeadlockAbort(c)

Spec == Init /\ [][Next]_vars

\* one caller makes one call
InitOne ==
    \/ PositionStarts
    \/ DataStarts
    \/ ListStarts
    \/ UnsetStarts
    \/ CommittedStarts
    \/ MissingStarts

NextOne == \E c \in Callers : Step(c)

SpecOne == InitOne /\ [][NextOne]_vars

\* one caller makes a call and a second caller repeats it once it has returned
InitRepeat == RepeatStarts

NextRepeat ==
    \/ Step("c1")
    \/ call["c1"].pc = "done" /\ Step("c2")

SpecRepeat == InitRepeat /\ [][NextRepeat]_vars

\* one caller makes one call while segment rows of the stream are removed
InitRemoval == RemovalStarts

NextRemoval ==
    \/ Step("c1")
    \/ RemoveSegment

SpecRemoval == InitRemoval /\ [][NextRemoval]_vars

\* two callers commit two streams concurrently
InitStreams == StreamsStarts

NextStreams == \E c \in Callers : Step(c)

SpecStreams == InitStreams /\ [][NextStreams]_vars

(***************************************************************************)
(* Vocabulary of the properties.                                           *)
(***************************************************************************)
Returned(c) == call[c].pc = "done"

Succeeded(c) == Returned(c) /\ call[c].err = NoError

FailedWith(c, kind) == Returned(c) /\ call[c].err.kind = kind

\* the committed segment rows of the stream, in position order
StreamRows(streamID) == OrderByPosition({r \in segments : r.StreamID = streamID})

\* the committed object rows of an identity, whatever their status
ObjectRows(os) ==
    {o \in objects :
        /\ o.ProjectID = os.ProjectID /\ o.BucketName = os.BucketName
        /\ o.ObjectKey = os.ObjectKey /\ o.Version = os.Version
        /\ o.StreamID = os.StreamID}

\* the encoded positions a list of positions names
EncodedPositions(list) == {Encode(list[i]) : i \in 1..Len(list)}

\* the encoded positions of a snapshot or of a commit list
PositionsOf(infos) == {Encode(infos[i].Position) : i \in 1..Len(infos)}

\* the statement was issued by the call
Issued(c, query) == \E i \in 1..Len(call[c].queries) : call[c].queries[i] = query

\* some step other than the commit of a transaction changed the committed rows
StoreChangedWithoutCommit ==
    /\ (segments' # segments \/ objects' # objects)
    /\ ~ \E c \in Callers : call[c].pc = "commit" /\ Succeeded(c)'

(***************************************************************************)
(* C1: of two concurrent calls on the same object stream, under any        *)
(* interleaving of their store operations and with any segment lists, at   *)
(* most one returns success.                                               *)
(***************************************************************************)
SameStream ==
    \A c, d \in Callers :
        requests[c] # <<>> /\ requests[d] # <<>>
            => requests[c][1].ObjectStream = requests[d][1].ObjectStream

C1_AtMostOneSuccess ==
    SameStream => Cardinality({c \in Callers : Succeeded(c)}) <= 1

\* both calls have returned, one with success, and their transactions overlapped
C1_Witness ==
    /\ SameStream
    /\ Succeeded("c1")
    /\ Returned("c2") /\ ~Succeeded("c2")
    /\ Issued("c2", "SELECT segments")
    /\ call["c2"].segmentsInDatabase # <<>>
    /\ PositionsOf(call["c2"].segmentsInDatabase)
         # {r.Position : r \in Range(StreamRows(ObjectStream1.StreamID))}

(***************************************************************************)
(* What a committed object row must say about the rows of its stream.      *)
(***************************************************************************)
\* the fixed segment size of rows in position order: 0 without rows, -1 when a
\* row has a part number other than 0 or a row other than the last differs in
\* encrypted size from the first, else the encrypted size of the first
FixedSizeOfRows(rows) ==
    IF Len(rows) = 0 THEN 0
    ELSE IF \/ \E i \in 1..Len(rows) : Decode(rows[i].Position).Part # 0
            \/ \E i \in 1..(Len(rows) - 1) : rows[i].EncryptedSize # rows[1].EncryptedSize
         THEN -1
         ELSE rows[1].EncryptedSize

\* the object row is Committed and its aggregates are those of the rows
CommittedWithAggregatesOf(o, rows) ==
    /\ o.Status = Committed
    /\ o.SegmentCount = Len(rows)
    /\ o.TotalPlainSize = SumSeq([i \in 1..Len(rows) |-> rows[i].PlainSize])
    /\ o.TotalEncryptedSize = SumSeq([i \in 1..Len(rows) |-> rows[i].EncryptedSize])
    /\ o.FixedSegmentSize = FixedSizeOfRows(rows)

(***************************************************************************)
(* C2: two concurrent calls for the same stream with the same segment      *)
(* list, started while the object is Pending, end with exactly one success *)
(* and one not-found failure, and with the object row Committed under the  *)
(* count, totals and fixed segment size of the kept segments.              *)
(***************************************************************************)
SameList == requests["c1"][1].Segments = requests["c2"][1].Segments

BothReturned == \A c \in Callers : Returned(c)

OneSuccessOneNotFound ==
    /\ \E c \in Callers :
          /\ Succeeded(c)
          /\ \A d \in Callers \ {c} : FailedWith(d, "not_found")
    /\ \A o \in ObjectRows(ObjectStream1) :
          CommittedWithAggregatesOf(o, StreamRows(ObjectStream1.StreamID))
    /\ ObjectRows(ObjectStream1) # {}
    /\ {r.Position : r \in Range(StreamRows(ObjectStream1.StreamID))}
         = EncodedPositions(requests["c1"][1].Segments)

\* the claim as stated: for every segment list
C2_AnyList ==
    SameStream /\ SameList /\ BothReturned => OneSuccessOneNotFound

\* every position the call lists is in the snapshot the call read
ListedInSnapshot(c) ==
    /\ Issued(c, "SELECT segments")
    /\ EncodedPositions(call[c].opts.Segments) \subseteq PositionsOf(call[c].segmentsInDatabase)

\* amended: for a strictly ascending list whose positions the stream holds
C2_ListHeld ==
    SameStream /\ SameList /\ BothReturned /\ (\A c \in Callers : ListedInSnapshot(c))
        => OneSuccessOneNotFound

\* both calls read the rows before either committed, rewrote offsets and
\* deleted a row, and have returned
C2_Witness ==
    /\ SameStream /\ SameList /\ BothReturned
    /\ \A c \in Callers : ListedInSnapshot(c)
    /\ call["c1"].segmentsInDatabase = call["c2"].segmentsInDatabase
    /\ \A c \in Callers : Issued(c, "UPDATE segments")
    /\ \A c \in Callers : Issued(c, "DELETE segments")
    /\ Succeeded("c2")

(***************************************************************************)
(* C3: when the conditional write of a call matches no row the call fails  *)
(* with the not-found error and its transaction is rolled back: the rows   *)
(* it staged for deletion are still there, the offsets it staged keep      *)
(* their prior values and the object row is unchanged.                     *)
(***************************************************************************)
\* the committed rows of the call's stream are those of the snapshot it read
SnapshotStillStored(c) ==
    LET rows == StreamRows(call[c].opts.ObjectStream.StreamID)
    IN  [i \in 1..Len(rows) |-> segmentInfoForCommit(rows[i])] = call[c].segmentsInDatabase

\* the step of the conditional write that finds no row
NoRowMatched(c) ==
    /\ call[c].pc = "object"
    /\ ObjectTargets(c) = {}
    /\ call'[c] # call[c]

C3_NotFoundRollsBack ==
    /\ [][\A c \in Callers :
            NoRowMatched(c) =>
                /\ FailedWith(c, "not_found")'
                /\ tx'[c] = NoTx
                /\ segments' = segments
                /\ objects' = objects]_vars
    /\ [][~StoreChangedWithoutCommit]_vars
    /\ [](\A c \in Callers :
            FailedWith(c, "not_found") => tx[c] = NoTx /\ SnapshotStillStored(c))

\* a call that staged an offset rewrite and a deletion has failed with not-found
C3_Witness ==
    /\ FailedWith("c1", "not_found")
    /\ Issued("c1", "UPDATE segments")
    /\ Issued("c1", "DELETE segments")
    /\ call["c1"].segmentsToDelete # <<>>
    /\ SnapshotStillStored("c1")
    /\ Len(StreamRows(ObjectStream1.StreamID)) > Len(call["c1"].finalSegments)

(***************************************************************************)
(* C4: a strictly ascending list with a position that the snapshot of the  *)
(* stream lacks makes the call fail with a consistency error, and leaves   *)
(* the segment rows and the object row as they were.                       *)
(***************************************************************************)
\* the call has read its snapshot and some listed position is not in it
ListsAbsentPosition(c) ==
    /\ Issued(c, "SELECT segments")
    /\ ~(EncodedPositions(call[c].opts.Segments) \subseteq PositionsOf(call[c].segmentsInDatabase))

C4_AbsentPositionFails ==
    /\ [](\A c \in Callers :
            ListsAbsentPosition(c) =>
                /\ FailedWith(c, "consistency")
                /\ tx[c] = NoTx
                /\ SnapshotStillStored(c)
                /\ ~Issued(c, "UPDATE segments")
                /\ ~Issued(c, "DELETE segments")
                /\ ~Issued(c, "UPDATE objects"))
    /\ [][\A c \in Callers :
            FailedWith(c, "consistency")' => segments' = segments /\ objects' = objects]_vars

\* the list names a stored position and, after it, a position that is not stored,
\* and the stream holds a row the list does not name
C4_Witness ==
    /\ FailedWith("c1", "consistency")
    /\ ListsAbsentPosition("c1")
    /\ Len(call["c1"].opts.Segments) >= 2
    /\ Encode(call["c1"].opts.Segments[1]) \in PositionsOf(call["c1"].segmentsInDatabase)
    /\ ~(PositionsOf(call["c1"].segmentsInDatabase) \subseteq EncodedPositions(call["c1"].opts.Segments))
    /\ SnapshotStillStored("c1")
    /\ \E o \in objects : o.Status = Pending

(***************************************************************************)
(* C5: after a successful call the stored plain offset of every kept       *)
(* segment is the sum of the plain sizes of the kept segments at lower     *)
(* positions, whatever the offsets stored before and whichever segments    *)
(* the call deleted.                                                       *)
(***************************************************************************)
\* every row's plain offset is the sum of the plain sizes of the rows before it
OffsetsAreRunningSums(rows) ==
    \A i \in 1..Len(rows) :
        rows[i].PlainOffset = SumSeq([j \in 1..(i - 1) |-> rows[j].PlainSize])

C5_OffsetsAreRunningSums ==
    \A c \in Callers :
        Succeeded(c) =>
            /\ OffsetsAreRunningSums(StreamRows(call[c].opts.ObjectStream.StreamID))
            /\ {r.Position : r \in Range(StreamRows(call[c].opts.ObjectStream.StreamID))}
                 = PositionsOf(call[c].finalSegments)

\* the call deleted the first row and kept two: one whose stored offset was
\* wrong and one whose stored offset was already right
C5_Witness ==
    /\ Succeeded("c1")
    /\ Len(call["c1"].finalSegments) = 2
    /\ call["c1"].segmentsToDelete # <<>>
    /\ Less(call["c1"].segmentsToDelete[1], call["c1"].finalSegments[1].Position)
    /\ call["c1"].finalSegments[1].OldPlainOffset # 0
    /\ call["c1"].finalSegments[1].PlainSize = 2
    /\ call["c1"].finalSegments[2].OldPlainOffset = 2
    /\ OffsetsAreRunningSums(StreamRows(ObjectStream1.StreamID))

(***************************************************************************)
(* C6: over any interleaving of calls an object row goes from Pending to   *)
(* Committed at most once and makes no other transition: a Committed row   *)
(* stays as it is, whatever later calls do.                                *)
(***************************************************************************)
C6_CommittedIsFinal ==
    [][/\ \A o \in objects :
             /\ o.Status = Committed => o \in objects'
             /\ o \notin objects' =>
                   \E n \in objects' :
                       /\ ObjectRowKey(n) = ObjectRowKey(o)
                       /\ o.Status = Pending
                       /\ n.Status = Committed
       /\ \A n \in objects' :
             n \notin objects => \E o \in objects \ objects' : ObjectRowKey(o) = ObjectRowKey(n)
      ]_vars

\* the row was committed by one call, and the other call then made its
\* conditional write and failed: the row still carries the first call's metadata
C6_Witness ==
    /\ Succeeded("c1")
    /\ FailedWith("c2", "not_found")
    /\ Issued("c2", "UPDATE objects")
    /\ \A o \in ObjectRows(ObjectStream1) :
          /\ o.Status = Committed
          /\ o.EncryptedMetadata = requests["c1"][1].EncryptedMetadata
          /\ o.SegmentCount # Len(call["c2"].finalSegments)
    /\ ObjectRows(ObjectStream1) # {}

(***************************************************************************)
(* C7: for an ordered, duplicate-free list and a store that holds exactly  *)
(* the listed positions, reconciliation yields no deletion and no offset   *)
(* update: the call issues no segment delete and no segment offset write.  *)
(***************************************************************************)
\* the snapshot the call read holds exactly the listed positions, in order
ListIsSnapshot(c) ==
    /\ Issued(c, "SELECT segments")
    /\ call[c].opts.Segments
         = [i \in 1..Len(call[c].segmentsInDatabase) |-> call[c].segmentsInDatabase[i].Position]

NoSegmentWrite(c) ==
    /\ call[c].segmentsToDelete = <<>>
    /\ ~Issued(c, "DELETE segments")
    /\ ~Issued(c, "UPDATE segments")

\* the claim as stated: whatever plain offsets the store holds
C7_SamePositions ==
    \A c \in Callers : ListIsSnapshot(c) => NoSegmentWrite(c)

\* amended: when the stored plain offsets already are the running sums
C7_SamePositionsAndOffsets ==
    \A c \in Callers :
        ListIsSnapshot(c) /\ OffsetsAreRunningSums(call[c].segmentsInDatabase)
            => NoSegmentWrite(c)

\* a call that listed exactly the three stored rows, their offsets right, has
\* committed without a write to a segment row
C7_Witness ==
    /\ Succeeded("c1")
    /\ ListIsSnapshot("c1")
    /\ Len(call["c1"].segmentsInDatabase) = 3
    /\ OffsetsAreRunningSums(call["c1"].segmentsInDatabase)
    /\ call["c1"].queries = <<"BEGIN", "SELECT segments", "UPDATE objects", "COMMIT">>

(***************************************************************************)
(* C8: the fixed segment size a successful call writes is 0 without kept   *)
(* segments, -1 when a kept segment has a part number other than 0 or a    *)
(* kept segment other than the last differs in encrypted size from the     *)
(* first, and else the encrypted size of the first kept segment.           *)
(***************************************************************************)
C8_FixedSegmentSize ==
    \A c \in Callers :
        Succeeded(c) =>
            /\ ObjectRows(call[c].opts.ObjectStream) # {}
            /\ \A o \in ObjectRows(call[c].opts.ObjectStream) :
                  o.FixedSegmentSize
                    = FixedSizeOfRows(StreamRows(call[c].opts.ObjectStream.StreamID))

\* three kept segments of the first part, the last of another encrypted size
C8_Witness ==
    /\ Succeeded("c1")
    /\ Len(StreamRows(ObjectStream1.StreamID)) = 3
    /\ StreamRows(ObjectStream1.StreamID)[1].EncryptedSize
         = StreamRows(ObjectStream1.StreamID)[2].EncryptedSize
    /\ StreamRows(ObjectStream1.StreamID)[3].EncryptedSize
         # StreamRows(ObjectStream1.StreamID)[1].EncryptedSize
    /\ \A o \in ObjectRows(ObjectStream1) :
          o.FixedSegmentSize = StreamRows(ObjectStream1.StreamID)[1].EncryptedSize

(***************************************************************************)
(* C9: a successful call deletes exactly the rows at snapshot positions    *)
(* the list does not name, and returns one DeletedSegmentInfo for each     *)
(* deleted remote row and none for a deleted inline row.                   *)
(***************************************************************************)
\* the rows of the stream the step removes
RowsRemoved(streamID) ==
    {r \in segments :
        /\ r.StreamID = streamID
        /\ ~ \E q \in segments' : q.StreamID = streamID /\ q.Position = r.Position}

C9_DeletedAreUnlisted ==
    [][\A c \in Callers :
        call[c].pc = "commit" /\ Succeeded(c)' =>
            LET streamID == call[c].opts.ObjectStream.StreamID
                removed == RowsRemoved(streamID)
                reported == call'[c].deletedSegments
            IN  /\ {r.Position : r \in removed}
                     = PositionsOf(call[c].segmentsInDatabase)
                         \ EncodedPositions(call[c].opts.Segments)
                /\ {q.Position : q \in {r \in segments' : r.StreamID = streamID}}
                     = EncodedPositions(call[c].opts.Segments)
                /\ Range(reported)
                     = {DeletedSegmentInfo(r) : r \in {x \in removed : x.RootPieceID # 0}}
                /\ Len(reported) = Cardinality({x \in removed : x.RootPieceID # 0})]_vars

\* the call deleted a remote row and an inline row and reported the remote one
C9_Witness ==
    /\ Succeeded("c1")
    /\ Len(call["c1"].segmentsToDelete) = 2
    /\ Len(call["c1"].deletedSegments) = 1
    /\ Len(StreamRows(ObjectStream1.StreamID)) = 1

(***************************************************************************)
(* C10: the call fails with a validation error exactly when an adjacent    *)
(* pair of its list is equal or decreasing in (part, index) order; the     *)
(* empty list and a list of one position pass.  A call that fails so has   *)
(* made no store operation and leaves the store unchanged.                 *)
(***************************************************************************)
\* position b is not after position a
NotAfter(a, b) == b.Part < a.Part \/ (b.Part = a.Part /\ b.Index <= a.Index)

Unordered(list) == \E i \in 1..(Len(list) - 1) : NotAfter(list[i], list[i + 1])

C10_ValidationIffUnordered ==
    /\ [](\A c \in Callers :
            call[c].pc # "idle" =>
                /\ call[c].err.kind = "validation" =>
                      /\ Unordered(call[c].opts.Segments)
                      /\ Returned(c)
                      /\ call[c].queries = <<>>
                      /\ tx[c] = NoTx
                /\ Unordered(call[c].opts.Segments) /\ VerifyObjectStream(call[c].opts.ObjectStream)
                      => FailedWith(c, "validation"))
    /\ [][\A c \in Callers :
            FailedWith(c, "validation")' => segments' = segments /\ objects' = objects]_vars

\* a list whose first pair ascends and whose second pair repeats a position
C10_Witness ==
    /\ FailedWith("c1", "validation")
    /\ Len(call["c1"].opts.Segments) = 3
    /\ Less(call["c1"].opts.Segments[1], call["c1"].opts.Segments[2])
    /\ call["c1"].opts.Segments[2] = call["c1"].opts.Segments[3]
    /\ segments # {}
    /\ call["c1"].queries = <<>>

(***************************************************************************)
(* C11: a call repeated with the same arguments after a first successful   *)
(* call fails with the not-found error, and leaves the object row and      *)
(* every segment row of the stream as the first call left them.            *)
(***************************************************************************)
SameArguments == requests["c1"] = requests["c2"]

C11_RepeatFailsCleanly ==
    /\ [](SameArguments /\ Succeeded("c1") /\ Returned("c2")
            => FailedWith("c2", "not_found") /\ tx["c2"] = NoTx)
    /\ [][SameArguments /\ Succeeded("c1")
            => segments' = segments /\ objects' = objects]_vars

\* the first call rewrote offsets, deleted a row and committed; the repeated
\* call read the rows it left, wrote to no segment row and failed
C11_Witness ==
    /\ SameArguments
    /\ Succeeded("c1")
    /\ Issued("c1", "UPDATE segments")
    /\ Issued("c1", "DELETE segments")
    /\ FailedWith("c2", "not_found")
    /\ call["c2"].queries = <<"BEGIN", "SELECT segments", "UPDATE objects", "ROLLBACK">>
    /\ Len(call["c2"].segmentsInDatabase) = 2
    /\ \A o \in ObjectRows(ObjectStream1) : o.Status = Committed /\ o.SegmentCount = 2

(***************************************************************************)
(* C12: a call with a strictly ascending list whose object is not Pending  *)
(* under the given identity, version and stream id - it is Committed, or   *)
(* there is no such row - fails with the not-found error, whatever segment *)
(* rows the store holds for the stream.                                    *)
(***************************************************************************)
\* no object row of the identity is Pending
NoPendingObject(os) == \A o \in ObjectRows(os) : o.Status # Pending

\* the step with which the call of caller c returns
Returns(c) == ~Returned(c) /\ Returned(c)'

\* the call is well formed and its object is not Pending when it returns
ReturnsWithoutPendingObject(c) ==
    /\ Returns(c)
    /\ VerifyObjectStream(call'[c].opts.ObjectStream)
    /\ ~Unordered(call'[c].opts.Segments)
    /\ NoPendingObject(call'[c].opts.ObjectStream)

\* the claim as stated: whatever segment rows the store holds
C12_AnyRows ==
    [][\A c \in Callers :
        ReturnsWithoutPendingObject(c) => FailedWith(c, "not_found")']_vars

\* amended: when the store holds a row at every listed position
C12_ListHeld ==
    [][\A c \in Callers :
        ReturnsWithoutPendingObject(c) /\ ListedInSnapshot(c)'
            => FailedWith(c, "not_found")']_vars

\* the object row is Committed; the call listed some of the stored rows,
\* staged the deletion of the others and failed with not-found
C12_Witness ==
    /\ FailedWith("c1", "not_found")
    /\ ObjectRows(ObjectStream1) # {}
    /\ \A o \in ObjectRows(ObjectStream1) : o.Status = Committed /\ o.SegmentCount = 3
    /\ Len(call["c1"].finalSegments) = 1
    /\ Len(call["c1"].segmentsToDelete) = 2
    /\ Len(StreamRows(ObjectStream1.StreamID)) = 3

(***************************************************************************)
(* C13: when the batched offset update affects another number of rows than *)
(* it has entries - a row of the stream was removed after the snapshot was *)
(* read - the call fails with an infrastructure error: the object stays    *)
(* Pending and no offset change or deletion of the call reaches the store. *)
(***************************************************************************)
\* the committed rows of the stream at the positions of the batch
BatchRows(c) ==
    {r \in segments :
        /\ r.StreamID = call[c].opts.ObjectStream.StreamID
        /\ \E u \in Range(OffsetUpdates(call[c].finalSegments, 0)) : u.Position = r.Position}

\* the step of updateSegmentOffsets whose statement misses a row of its batch
MismatchStep(c) ==
    /\ call[c].pc = "update"
    /\ call'[c] # call[c]
    /\ Cardinality(BatchRows(c)) # Len(OffsetUpdates(call[c].finalSegments, 0))

\* every committed row of the call's stream is as the call's snapshot read it
StoredAsRead(c) ==
    \A r \in segments :
        r.StreamID = call[c].opts.ObjectStream.StreamID
            => segmentInfoForCommit(r) \in Range(call[c].segmentsInDatabase)

C13_MismatchFails ==
    /\ [][\A c \in Callers :
            MismatchStep(c) =>
                /\ FailedWith(c, "infrastructure")'
                /\ tx'[c] = NoTx
                /\ segments' = segments
                /\ objects' = objects]_vars
    /\ [][\A c \in Callers :
            call'[c] # call[c] /\ call[c].pc # "commit"
                => segments' = segments /\ objects' = objects]_vars
    /\ [](\A c \in Callers :
            FailedWith(c, "infrastructure") =>
                /\ tx[c] = NoTx
                /\ StoredAsRead(c)
                /\ ObjectRows(call[c].opts.ObjectStream) = {PendingObject(call[c].opts.ObjectStream)})

\* the call read two rows, a row of its batch was removed, and the call failed
\* with the other row's offset and the object row as they were
C13_Witness ==
    /\ FailedWith("c1", "infrastructure")
    /\ Issued("c1", "UPDATE segments")
    /\ ~Issued("c1", "UPDATE objects")
    /\ Len(call["c1"].segmentsInDatabase) = 2
    /\ Len(OffsetUpdates(call["c1"].finalSegments, 0)) = 2
    /\ Len(StreamRows(ObjectStream1.StreamID)) = 1
    /\ StreamRows(ObjectStream1.StreamID)[1].PlainOffset # 1
    /\ StreamRows(ObjectStream1.StreamID)[1].Position = 1
    /\ objects = {PendingObject(ObjectStream1)}

(***************************************************************************)
(* C14: for a strictly ascending list A and a snapshot B in position order *)
(* that holds every position of A, determineCommitActions returns as       *)
(* commit list A itself, each entry with the plain size, encrypted size    *)
(* and plain offset of the snapshot row at its position, and as delete     *)
(* list the positions of B that A lacks, ascending; the two lists are      *)
(* disjoint and cover every position of B once.                            *)
(***************************************************************************)
\* the positions of a snapshot, in its order
SnapshotPositions(B) == [i \in 1..Len(B) |-> B[i].Position]

\* the entry of the commit list is the snapshot row at its position
CarriedFrom(entry, B) ==
    \E j \in 1..Len(B) :
        /\ B[j].Position = entry.Position
        /\ B[j].PlainSize = entry.PlainSize
        /\ B[j].EncryptedSize = entry.EncryptedSize
        /\ B[j].PlainOffset = entry.OldPlainOffset

C14_CommitAndDelete ==
    \A c \in Callers :
        ListedInSnapshot(c) =>
            LET A == call[c].opts.Segments
                B == call[c].segmentsInDatabase
                commit == call[c].finalSegments
                toDelete == call[c].segmentsToDelete
            IN  /\ [i \in 1..Len(commit) |-> commit[i].Position] = A
                /\ \A i \in 1..Len(commit) : CarriedFrom(commit[i], B)
                /\ toDelete = Ascending(Range(SnapshotPositions(B)) \ Range(A))
                /\ Range(toDelete) \cap Range(A) = {}
                /\ Range(toDelete) \cup Range(A) = Range(SnapshotPositions(B))
                /\ Len(toDelete) + Len(commit) = Len(B)

\* reconciliation kept the middle one of three rows, with its sizes and its
\* stored offset, and marked the rows before and after it for deletion
C14_Witness ==
    /\ call["c1"].pc = "update"
    /\ ListedInSnapshot("c1")
    /\ Len(call["c1"].segmentsInDatabase) = 3
    /\ Len(call["c1"].finalSegments) = 1
    /\ call["c1"].finalSegments[1].Position = call["c1"].segmentsInDatabase[2].Position
    /\ call["c1"].finalSegments[1].OldPlainOffset = 2
    /\ call["c1"].finalSegments[1].PlainSize = 2
    /\ call["c1"].segmentsToDelete
         = <<call["c1"].segmentsInDatabase[1].Position, call["c1"].segmentsInDatabase[3].Position>>

(***************************************************************************)
(* C15: reconciliation does not stop at the first mismatch.  For a         *)
(* strictly ascending list A and a snapshot B the consistency error has    *)
(* one entry for each position of A that B lacks, those after the end of B *)
(* included, in ascending order; and when there is such an entry the       *)
(* commit list and the delete list are returned empty.                     *)
(***************************************************************************)
\* the positions of A that B lacks, ascending
AbsentPositions(A, B) == Ascending(Range(A) \ Range(SnapshotPositions(B)))

C15_EveryAbsentPosition ==
    \A c \in Callers :
        Issued(c, "SELECT segments") =>
            LET absent == AbsentPositions(call[c].opts.Segments, call[c].segmentsInDatabase)
            IN  /\ absent # <<>> =>
                      /\ FailedWith(c, "consistency")
                      /\ call[c].err.invalid = absent
                      /\ call[c].finalSegments = <<>>
                      /\ call[c].segmentsToDelete = <<>>
                /\ absent = <<>> => call[c].err.kind # "consistency"

\* of three listed positions the first is stored, the second is missing before
\* a stored row the list does not name, and the third lies after the last row
C15_Witness ==
    /\ FailedWith("c1", "consistency")
    /\ Len(call["c1"].opts.Segments) = 3
    /\ Len(call["c1"].segmentsInDatabase) = 2
    /\ call["c1"].opts.Segments[1] = call["c1"].segmentsInDatabase[1].Position
    /\ Less(call["c1"].opts.Segments[2], call["c1"].segmentsInDatabase[2].Position)
    /\ Less(call["c1"].segmentsInDatabase[2].Position, call["c1"].opts.Segments[3])
    /\ call["c1"].err.invalid = <<call["c1"].opts.Segments[2], call["c1"].opts.Segments[3]>>
    /\ call["c1"].finalSegments = <<>>
    /\ call["c1"].segmentsToDelete = <<>>

(***************************************************************************)
(* C16: the batch of updateSegmentOffsets holds exactly the kept segments  *)
(* whose stored plain offset differs from the sum of the plain sizes of    *)
(* the kept segments before them, each with that sum as its new offset; a  *)
(* kept segment whose offset is right is not in the batch, and with an     *)
(* empty batch no update of segments is issued.                            *)
(***************************************************************************)
\* the sum of the plain sizes of the kept segments before the i-th
RunningSum(commit, i) == SumSeq([j \in 1..(i - 1) |-> commit[j].PlainSize])

\* the kept segments whose stored offset is not the running sum, with that sum
BatchOf(commit) ==
    {[Position |-> Encode(commit[i].Position), PlainOffset |-> RunningSum(commit, i)] :
        i \in {j \in 1..Len(commit) : commit[j].OldPlainOffset # RunningSum(commit, j)}}

\* the rows the transaction of caller c has rewritten, as (position, offset)
StagedOffsets(c) ==
    {[Position |-> r.Position, PlainOffset |-> r.PlainOffset] : r \in tx[c].segSet}

C16_BatchIsTheWrongOffsets ==
    \A c \in Callers :
        /\ call[c].pc = "delete" =>
              /\ StagedOffsets(c) = BatchOf(call[c].finalSegments)
              /\ \A r \in tx[c].segSet :
                    \E q \in segments : q = [r EXCEPT !.PlainOffset = q.PlainOffset]
        /\ call[c].pc # "update" =>
              (Issued(c, "UPDATE segments") <=> BatchOf(call[c].finalSegments) # {})

\* of two kept segments the first had a wrong offset and was rewritten to 0,
\* the second had the right offset, not 0, and was left out of the batch
C16_Witness ==
    /\ call["c1"].pc = "delete"
    /\ Len(call["c1"].finalSegments) = 2
    /\ call["c1"].finalSegments[1].OldPlainOffset = 1
    /\ call["c1"].finalSegments[1].PlainSize = 2
    /\ call["c1"].finalSegments[2].OldPlainOffset = 2
    /\ StagedOffsets("c1")
         = {[Position |-> Encode(call["c1"].finalSegments[1].Position), PlainOffset |-> 0]}
    /\ Issued("c1", "UPDATE segments")

(***************************************************************************)
(* C17: after a successful call the object row's segment count is the      *)
(* number of kept segments and its total plain and encrypted sizes are the *)
(* sums over the kept segments, the deleted segments adding nothing; the   *)
(* Object returned carries the status Committed and the segment count,     *)
(* totals, fixed segment size and metadata fields written to the row.      *)
(***************************************************************************)
\* the rows of the snapshot at the listed positions
KeptOfSnapshot(c) ==
    SelectSeq(call[c].segmentsInDatabase,
              LAMBDA b : b.Position \in Range(call[c].opts.Segments))

\* the returned Object and the row agree on what the call wrote
ReturnedAsWritten(object, o) ==
    /\ object.Status = Committed
    /\ o.Status = Committed
    /\ object.SegmentCount = o.SegmentCount
    /\ object.TotalPlainSize = o.TotalPlainSize
    /\ object.TotalEncryptedSize = o.TotalEncryptedSize
    /\ object.FixedSegmentSize = o.FixedSegmentSize
    /\ object.EncryptedMetadataNonce = o.EncryptedMetadataNonce
    /\ object.EncryptedMetadata = o.EncryptedMetadata
    /\ object.EncryptedMetadataEncryptedKey = o.EncryptedMetadataEncryptedKey

C17_AggregatesOfKept ==
    \A c \in Callers :
        Succeeded(c) =>
            LET kept == KeptOfSnapshot(c)
                rows == StreamRows(call[c].opts.ObjectStream.StreamID)
            IN  /\ ObjectRows(call[c].opts.ObjectStream) # {}
                /\ \A o \in ObjectRows(call[c].opts.ObjectStream) :
                      /\ o.SegmentCount = Len(kept)
                      /\ o.SegmentCount = Len(rows)
                      /\ o.TotalPlainSize = SumSeq([i \in 1..Len(kept) |-> kept[i].PlainSize])
                      /\ o.TotalEncryptedSize
                           = SumSeq([i \in 1..Len(kept) |-> kept[i].EncryptedSize])
                      /\ o.TotalPlainSize = SumSeq([i \in 1..Len(rows) |-> rows[i].PlainSize])
                      /\ o.TotalEncryptedSize
                           = SumSeq([i \in 1..Len(rows) |-> rows[i].EncryptedSize])
                      /\ o.EncryptedMetadata = requests[c][1].EncryptedMetadata
                      /\ o.EncryptedMetadataNonce = requests[c][1].EncryptedMetadataNonce
                      /\ o.EncryptedMetadataEncryptedKey
                           = requests[c][1].EncryptedMetadataEncryptedKey
                      /\ ReturnedAsWritten(call[c].object, o)

\* the call kept two of three rows, of plain sizes 1 and 2 and encrypted sizes
\* 2 and 2, and deleted a row of plain size 2
C17_Witness ==
    /\ Succeeded("c1")
    /\ Len(call["c1"].segmentsInDatabase) = 3
    /\ Len(call["c1"].finalSegments) = 2
    /\ call["c1"].finalSegments[1].PlainSize = 1
    /\ call["c1"].finalSegments[2].PlainSize = 2
    /\ \E i \in 1..3 :
          /\ call["c1"].segmentsInDatabase[i].Position \in Range(call["c1"].segmentsToDelete)
          /\ call["c1"].segmentsInDatabase[i].PlainSize = 2
    /\ call["c1"].object.TotalPlainSize = 3
    /\ call["c1"].object.TotalEncryptedSize = 4
    /\ call["c1"].object.SegmentCount = 2

(***************************************************************************)
(* C18: a call for one stream id, successful or not and with or without a  *)
(* concurrent call for another stream, leaves the segment rows and the     *)
(* object row of every other stream id unchanged; concurrent calls on two  *)
(* Pending streams both succeed, each with the result it has alone.        *)
(***************************************************************************)
\* the committed rows of all streams but the one caller c commits
RowsOfOtherStreams(c) ==
    <<{r \in segments : r.StreamID # requests[c][1].ObjectStream.StreamID},
      {o \in objects : o.StreamID # requests[c][1].ObjectStream.StreamID}>>

DifferentStreams ==
    requests["c1"][1].ObjectStream.StreamID # requests["c2"][1].ObjectStream.StreamID

\* what a successful call of caller c leaves when no other call runs
ResultAlone(c) ==
    LET os == call[c].opts.ObjectStream
        rows == StreamRows(os.StreamID)
    IN  /\ Succeeded(c)
        /\ {r.Position : r \in Range(rows)} = EncodedPositions(call[c].opts.Segments)
        /\ [i \in 1..Len(rows) |-> [segmentInfoForCommit(rows[i]) EXCEPT !.PlainOffset = 0]]
             = [i \in 1..Len(KeptOfSnapshot(c)) |->
                   [KeptOfSnapshot(c)[i] EXCEPT !.PlainOffset = 0]]
        /\ OffsetsAreRunningSums(rows)
        /\ ObjectRows(os) # {}
        /\ \A o \in ObjectRows(os) :
              /\ CommittedWithAggregatesOf(o, rows)
              /\ o.EncryptedMetadata = requests[c][1].EncryptedMetadata
              /\ ReturnedAsWritten(call[c].object, o)
        /\ Len(call[c].deletedSegments) = Len(call[c].segmentsInDatabase) - Len(rows)

C18_OtherStreamsUntouched ==
    /\ [][\A c \in Callers :
            call'[c] # call[c] => RowsOfOtherStreams(c)' = RowsOfOtherStreams(c)]_vars
    /\ [](DifferentStreams =>
            \A c \in Callers :
                /\ Returned(c) /\ ListedInSnapshot(c) => ResultAlone(c)
                /\ Returned(c) /\ ListsAbsentPosition(c) =>
                      FailedWith(c, "consistency") /\ SnapshotStillStored(c))

\* both calls have rewritten an offset and deleted a row of their stream and
\* neither has committed yet; the first deleted the position the second keeps
C18_Witness ==
    /\ DifferentStreams
    /\ \A c \in Callers : call[c].pc = "commit"
    /\ \A c \in Callers : Issued(c, "UPDATE segments") /\ Issued(c, "DELETE segments")
    /\ \E p \in Range(call["c1"].segmentsToDelete) :
          \E i \in 1..Len(call["c2"].finalSegments) : call["c2"].finalSegments[i].Position = p

(***************************************************************************)
(* C19: right after a successful call the positions stored for the stream  *)
(* are exactly the positions of the client's list - no other row is left   *)
(* and no listed row is missing - and the object row's segment count is    *)
(* the number of segment rows stored for the stream.                       *)
(***************************************************************************)
\* the committed segment rows of a stream, as a set
RowsOfStream(streamID) == {r \in segments : r.StreamID = streamID}

C19_StoredAreListed ==
    \A c \in Callers :
        Succeeded(c) =>
            LET os == call[c].opts.ObjectStream
            IN  /\ {r.Position : r \in RowsOfStream(os.StreamID)}
                     = EncodedPositions(call[c].opts.Segments)
                /\ Cardinality(RowsOfStream(os.StreamID)) = Len(call[c].opts.Segments)
                /\ ObjectRows(os) # {}
                /\ \A o \in ObjectRows(os) :
                      o.SegmentCount = Cardinality(RowsOfStream(os.StreamID))

\* the stream held three rows over two parts; the call listed the first and
\* the last and committed, and the row between them is gone
C19_Witness ==
    /\ Succeeded("c1")
    /\ Len(call["c1"].segmentsInDatabase) = 3
    /\ Len(call["c1"].opts.Segments) = 2
    /\ call["c1"].opts.Segments[1].Part = 0
    /\ call["c1"].opts.Segments[2].Part = 1
    /\ call["c1"].segmentsToDelete = <<call["c1"].segmentsInDatabase[2].Position>>
    /\ Cardinality(RowsOfStream(ObjectStream1.StreamID)) = 2

(***************************************************************************)
(* C20: with calls as the only writers of a stream, whenever the object is *)
(* Committed - under any interleaving of concurrent calls with equal or    *)
(* different lists - the segment rows of the stream are those kept by the  *)
(* one successful call, their plain offsets are the running sums from 0,   *)
(* and the object's segment count and totals are the count and the sums of *)
(* those rows; no deletion or offset rewrite of a losing call is visible.  *)
(***************************************************************************)
\* a row or a kept segment without its plain offset
SizedPosition(position, plainSize, encryptedSize) ==
    [Position |-> position, PlainSize |-> plainSize, EncryptedSize |-> encryptedSize]

\* the rows are the segments caller c kept, in order
KeptBy(c, rows) ==
    [i \in 1..Len(rows) |->
        SizedPosition(Decode(rows[i].Position), rows[i].PlainSize, rows[i].EncryptedSize)]
    = [i \in 1..Len(call[c].finalSegments) |->
          SizedPosition(call[c].finalSegments[i].Position, call[c].finalSegments[i].PlainSize,
                        call[c].finalSegments[i].EncryptedSize)]

ObjectIsCommitted == \E o \in ObjectRows(ObjectStream1) : o.Status = Committed

C20_CommittedStates ==
    /\ [](ObjectIsCommitted =>
            LET rows == StreamRows(ObjectStream1.StreamID)
            IN  /\ Cardinality({c \in Callers : Succeeded(c)}) = 1
                /\ \A c \in Callers : Succeeded(c) => KeptBy(c, rows)
                /\ OffsetsAreRunningSums(rows)
                /\ \A o \in ObjectRows(ObjectStream1) :
                      /\ o.SegmentCount = Len(rows)
                      /\ o.TotalPlainSize = SumSeq([i \in 1..Len(rows) |-> rows[i].PlainSize])
                      /\ o.TotalEncryptedSize
                           = SumSeq([i \in 1..Len(rows) |-> rows[i].EncryptedSize]))
    /\ [][ObjectIsCommitted => segments' = segments /\ objects' = objects]_vars
    /\ [][(segments' # segments \/ objects' # objects)
            => \E c \in Callers : call[c].pc = "commit" /\ Succeeded(c)']_vars
    /\ [](\A c \in Callers : Returned(c) /\ ~Succeeded(c) => tx[c] = NoTx)

\* the losing call listed other positions than the winner, rewrote an offset
\* and deleted a row in its transaction; the row it deleted is stored, and the
\* rows are those of the winner's list
C20_Witness ==
    /\ ObjectIsCommitted
    /\ Succeeded("c2")
    /\ Returned("c1") /\ ~Succeeded("c1")
    /\ Issued("c1", "UPDATE segments")
    /\ Issued("c1", "DELETE segments")
    /\ \E p \in Range(call["c1"].segmentsToDelete) :
          Encode(p) \in {r.Position : r \in RowsOfStream(ObjectStream1.StreamID)}
    /\ requests["c1"][1].Segments # requests["c2"][1].Segments
    /\ Len(StreamRows(ObjectStream1.StreamID)) = 2

====
